---- MODULE Spec2Model ----
(***************************************************************************)
(* Model of the change-replay engine of vs-code-player:                    *)
(*   - getTextDifference2DRanges (VSCodePlayer.tsx), the diff synthesizer  *)
(*   - throttle / debounce (Controls.tsx), the rate limiter                *)
(*   - the effects of the VsCodePlayer component (priming, filtering,      *)
(*     cancelling, scheduling) and the update body throttledUpdateFiles    *)
(* Time is in milliseconds.  Texts are sequences of one-character strings. *)
(***************************************************************************)
EXTENDS Integers, Sequences, FiniteSets, TLC

VARIABLES
    diffIn,         \* the part sequence Diff.diffChars returned (per-character ops)
    diffOut,        \* the Changes2DRange computed from it, or Null
    diffCalled,     \* TRUE once getTextDifference2DRanges has returned
    convIn,         \* a Changes2DRange given to convert2DChangesToMonacoOperations
    convOut,        \* the MonacoEditorChangeOptions it returned, or Null before
    durIn,          \* a parsed sourceCode the duration is computed from
    durOut,         \* the duration computed from it, Undefined before
    ctlIn,          \* the props of Controls and the geometry of a mouse event
    ctlOut,         \* the command Controls emitted, or Null before
    sourceCodeArray,\* the parsed timeline (prop sourceCode)
    now,            \* Date.now()
    editorState,    \* TRUE once the editor (and monaco) have mounted
    unmounted,      \* TRUE once the component has been unmounted
    currentTime,    \* prop currentTime, in ms (the code multiplies seconds by 1000)
    playerState,    \* prop playerState
    currentSpeed,   \* prop currentSpeed
    prevVideoSpeed, \* ref prevVideoSpeed
    filteredArray,  \* state filteredArray: indexes into sourceCodeArray
    timeouts,       \* ref timeouts: index -> timer id of the last scheduling pass
    timers,         \* the host's pending timers (setTimeout not yet fired or cleared)
    nextTimerId,    \* the id the next setTimeout returns
    thr,            \* closure state of the throttled function
    lastUpdateTime, \* ref lastUpdateTime
    files,          \* ref files: path -> {model, value, isChanged}
    modelValue,     \* the text models that exist and their content
    editorModel,    \* the model the editor shows (editorState.getModel())
    currentFilePath,\* ref currentFilePathRef
    hasCleanup,     \* TRUE when the last scheduling pass returned its cleanup
    passCount,      \* history: number of scheduling passes so far
    firedSteps,     \* history: step timers of the last pass that have fired
    execLog,        \* history: every execution of the update body
    reqLog,         \* history: every call of throttledUpdateFiles
    cmdLog          \* history: the prop changes after the mount

\* the null a function returns for "no value"
Null == [null |-> TRUE]

(***************************************************************************)
(* Generic helpers                                                         *)
(***************************************************************************)
Max(a, b) == IF a >= b THEN a ELSE b

Min(a, b) == IF a <= b THEN a ELSE b

\* s.slice(from, to) of JavaScript, 0-based, end exclusive
Slice(s, from, to) == SubSeq(s, from + 1, to)

\* replace [offset, offset+length) of s by txt
ReplaceRange(s, offset, length, txt) ==
    Slice(s, 0, offset) \o txt \o Slice(s, offset + length, Len(s))

(***************************************************************************)
(* Diff.diffChars: the library returns a list of parts, each added,        *)
(* removed or unchanged.  A result is written here as a script of          *)
(* per-character operations; DiffParts groups it into the parts.           *)
(***************************************************************************)
Alphabet == {"a", "b"}

MaxOps == 4

Kinds == {"eq", "del", "add"}

Ops == [k : Kinds, c : Alphabet]

RECURSIVE ScriptOriginal(_)
ScriptOriginal(sc) ==
    IF sc = <<>> THEN <<>>
    ELSE IF Head(sc).k = "add" THEN ScriptOriginal(Tail(sc))
    ELSE <<Head(sc).c>> \o ScriptOriginal(Tail(sc))

RECURSIVE ScriptTarget(_)
ScriptTarget(sc) ==
    IF sc = <<>> THEN <<>>
    ELSE IF Head(sc).k = "del" THEN ScriptTarget(Tail(sc))
    ELSE <<Head(sc).c>> \o ScriptTarget(Tail(sc))

RECURSIVE LcsLen(_, _)
LcsLen(o, t) ==
    IF o = <<>> \/ t = <<>> THEN 0
    ELSE IF Head(o) = Head(t) THEN 1 + LcsLen(Tail(o), Tail(t))
    ELSE Max(LcsLen(Tail(o), t), LcsLen(o, Tail(t)))

EqCount(sc) == Cardinality({i \in 1..Len(sc) : sc[i].k = "eq"})

\* what the library can return: removals precede additions inside one change
\* block, and the script is a shortest one (as many kept characters as the
\* longest common subsequence has)
IsDiffScript(sc) ==
    /\ \A i \in 1..(Len(sc) - 1) : ~(sc[i].k = "add" /\ sc[i + 1].k = "del")
    /\ EqCount(sc) = LcsLen(ScriptOriginal(sc), ScriptTarget(sc))

DiffScripts ==
    {sc \in UNION {[1..n -> Ops] : n \in 1..MaxOps} : IsDiffScript(sc)}

\* a deterministic shortest script for (o, t), used by the player
RECURSIVE DiffChars(_, _)
DiffChars(o, t) ==
    IF o = <<>> THEN [i \in 1..Len(t) |-> [k |-> "add", c |-> t[i]]]
    ELSE IF t = <<>> THEN [i \in 1..Len(o) |-> [k |-> "del", c |-> o[i]]]
    ELSE IF Head(o) = Head(t)
              /\ 1 + LcsLen(Tail(o), Tail(t)) = LcsLen(o, t)
         THEN <<[k |-> "eq", c |-> Head(o)]>> \o DiffChars(Tail(o), Tail(t))
    ELSE IF LcsLen(Tail(o), t) = LcsLen(o, t)
         THEN <<[k |-> "del", c |-> Head(o)]>> \o DiffChars(Tail(o), t)
    ELSE LET rest == DiffChars(o, Tail(t))
             dels == Cardinality({i \in 1..Len(rest) :
                          /\ rest[i].k = "del"
                          /\ \A j \in 1..i : rest[j].k = "del"})
         IN  SubSeq(rest, 1, dels) \o <<[k |-> "add", c |-> Head(t)]>>
                 \o SubSeq(rest, dels + 1, Len(rest))

\* the parts of a script: maximal runs of operations of one kind
RECURSIVE DiffParts(_)
DiffParts(sc) ==
    IF sc = <<>> THEN <<>>
    ELSE LET rest == DiffParts(Tail(sc))
         IN  IF rest # <<>> /\ Head(rest).kind = Head(sc).k
             THEN <<[kind |-> Head(sc).k,
                     value |-> <<Head(sc).c>> \o Head(rest).value]>> \o Tail(rest)
             ELSE <<[kind |-> Head(sc).k, value |-> <<Head(sc).c>>]>> \o rest

(***************************************************************************)
(* getTextDifference2DRanges                                               *)
(***************************************************************************)
\* getLineLength: the cached length of a part's value
getLineLength(line) == Len(line)

\* if (!state.changes) state.rangeOffset += ...
UnchangedNoChanges(part, state) ==
    IF state.changes = 0
    THEN [state EXCEPT !.rangeOffset = @ + getLineLength(part.value)]
    ELSE state

\* if (state.changes && !isLast) state.rangeLength += ...
UnchangedAfterChanges(part, isLast, state) ==
    IF state.changes # 0 /\ ~isLast
    THEN [state EXCEPT !.rangeLength = @ + getLineLength(part.value)]
    ELSE state

\* if (state.additions && !isLast) state.rangeText += part.value
UnchangedAfterAdditions(part, isLast, state) ==
    IF state.additions # 0 /\ ~isLast
    THEN [state EXCEPT !.rangeText = @ \o part.value]
    ELSE state

\* the statement with += in place of -=
UnchangedAfterDeletions_Added(part, isLast, state) ==
    IF state.deletions # 0 /\ state.additions = 0 /\ ~isLast
    THEN [state EXCEPT !.rangeLength = @ + getLineLength(part.value)]
    ELSE state

\* if (state.deletions && !state.additions && !isLast) state.rangeLength -= ...
UnchangedAfterDeletions(part, isLast, state) ==
    IF state.deletions # 0 /\ state.additions = 0 /\ ~isLast
    THEN [state EXCEPT !.rangeLength = @ - getLineLength(part.value)]
    ELSE state

\* the four statements in the order of the code
processUnchangedPart(part, isLast, state) ==
    UnchangedAfterDeletions(part, isLast,
        UnchangedAfterAdditions(part, isLast,
            UnchangedAfterChanges(part, isLast,
                UnchangedNoChanges(part, state))))

\* the branch of the loop body taken for the part
DiffBranch(part, isLast, state) ==
    IF part.kind = "add"
    THEN [state EXCEPT !.rangeText = @ \o part.value,
                       !.changes = @ + 1,
                       !.additions = @ + 1]
    ELSE IF part.kind = "del"
    THEN [state EXCEPT !.rangeLength = @ + getLineLength(part.value),
                       !.changes = @ + 1,
                       !.deletions = @ + 1]
    ELSE processUnchangedPart(part, isLast, state)

\* the statement that ends the loop body
DiffOffsetUpdate(s) ==
    [s EXCEPT !.rangeOffset =
        IF s.changes # 0 THEN s.rangeOffset ELSE s.rangeOffset + s.rangeLength]

\* one iteration of the loop over the parts
DiffLoopBody(part, isLast, state) ==
    DiffOffsetUpdate(DiffBranch(part, isLast, state))

RECURSIVE DiffLoop(_, _, _)
DiffLoop(parts, i, state) ==
    IF i > Len(parts) THEN state
    ELSE DiffLoop(parts, i + 1, DiffLoopBody(parts[i], i = Len(parts), state))

DiffInitState ==
    [rangeOffset |-> 0, rangeLength |-> 0, rangeText |-> <<>>,
     changes |-> 0, deletions |-> 0, additions |-> 0]

\* diff is the value Diff.diffChars(originalText, text) returned
DiffResult(state, text, originalText) ==
    [rangeOffset |-> state.rangeOffset,
     rangeLength |-> state.rangeLength,
     rangeText |-> state.rangeText,
     originalText |-> originalText,
     targetText |-> text]

\* a diff that also returns null for an empty target text
getTextDifference2DRanges_EmptyIsNull(text, originalText, diff) ==
    IF originalText = text \/ Len(text) = 0 THEN Null
    ELSE DiffResult(DiffLoop(DiffParts(diff), 1, DiffInitState),
                    text, originalText)

getTextDifference2DRanges(text, originalText, diff) ==
    IF originalText = text THEN Null
    ELSE DiffResult(DiffLoop(DiffParts(diff), 1, DiffInitState),
                    text, originalText)

(***************************************************************************)
(* convert2DChangesToMonacoOperations                                      *)
(***************************************************************************)
\* originalText.split(/\r\n|\n/)
RECURSIVE SplitEol(_, _)
SplitEol(s, line) ==
    IF s = <<>> THEN <<line>>
    ELSE IF Head(s) = "\n" THEN <<line>> \o SplitEol(Tail(s), <<>>)
    ELSE IF Head(s) = "\r" /\ Len(s) >= 2 /\ s[2] = "\n"
         THEN <<line>> \o SplitEol(Tail(Tail(s)), <<>>)
    ELSE SplitEol(Tail(s), Append(line, Head(s)))

\* the length of the first match of /\r\n|\n/, 1 when there is none
RECURSIVE EolLength(_)
EolLength(s) ==
    IF s = <<>> THEN 1
    ELSE IF Head(s) = "\n" THEN 1
    ELSE IF Head(s) = "\r" /\ Len(s) >= 2 /\ s[2] = "\n" THEN 2
    ELSE EolLength(Tail(s))

RECURSIVE ConvertLoop(_, _, _, _)

\* the start of the range against line i, of length lineLength
ConvertStart(st, i, lineLength) ==
    IF st.start >= lineLength
    THEN [st EXCEPT !.start = @ - lineLength,
                    !.startLineNumber = @ + 1]
    ELSE IF st.start # 0 \/ (st.start = 0 /\ i = 1)
    THEN [st EXCEPT !.startColumn = st.start + 1,
                    !.startLineNumber = @ + 1,
                    !.start = 0]
    ELSE st

\* the end column set to end, not end + 1
ConvertEnd_ZeroBased(lines, i, eolLength, s1, lineLength) ==
    IF s1.end >= lineLength
    THEN ConvertLoop(lines, i + 1, eolLength,
                     [s1 EXCEPT !.end = @ - lineLength,
                                !.endLineNumber = @ + 1])
    ELSE IF s1.end # 0 \/ (s1.end = 0 /\ i = 1)
    THEN [s1 EXCEPT !.endColumn = s1.end,
                    !.endLineNumber = @ + 1]
    ELSE ConvertLoop(lines, i + 1, eolLength, s1)

\* the end of the range against line i: the loop goes on or breaks
ConvertEnd(lines, i, eolLength, s1, lineLength) ==
    IF s1.end >= lineLength
    THEN ConvertLoop(lines, i + 1, eolLength,
                     [s1 EXCEPT !.end = @ - lineLength,
                                !.endLineNumber = @ + 1])
    ELSE IF s1.end # 0 \/ (s1.end = 0 /\ i = 1)
    THEN [s1 EXCEPT !.endColumn = s1.end + 1,
                    !.endLineNumber = @ + 1]
    ELSE ConvertLoop(lines, i + 1, eolLength, s1)

ConvertLoop(lines, i, eolLength, st) ==
    IF i > Len(lines) THEN st
    ELSE ConvertEnd(lines, i, eolLength,
                    ConvertStart(st, i, Len(lines[i]) + eolLength),
                    Len(lines[i]) + eolLength)

ConvertResult(st, changes) ==
    [range |-> [startLineNumber |-> st.startLineNumber,
                startColumn |-> st.startColumn,
                endLineNumber |-> st.endLineNumber,
                endColumn |-> st.endColumn],
     text |-> changes.rangeText,
     targetText |-> changes.targetText]

convert2DChangesToMonacoOperations(changes) ==
    ConvertResult(ConvertLoop(SplitEol(changes.originalText, <<>>), 1,
                              EolLength(changes.originalText),
                              [start |-> changes.rangeOffset,
                               end |-> changes.rangeOffset + changes.rangeLength,
                               startLineNumber |-> 0, startColumn |-> 0,
                               endLineNumber |-> 0, endColumn |-> 0]),
                  changes)

(***************************************************************************)
(* The text model of the editor: a position is validated (clamped into     *)
(* the text) and a range replaced by a text.                               *)
(***************************************************************************)
\* offset of the validated position (lineNumber, column) in text
\* the offsets at which the lines of text start
LineStarts(text) == {0} \cup {i \in 1..Len(text) : text[i] = "\n"}

\* the offset at which line number line starts
LineStart(starts, line) ==
    CHOOSE o \in starts : Cardinality({x \in starts : x < o}) = line - 1

\* the validated column of a position on line number line (clamped)
ValidColumn(lines, line, lineNumber, column) ==
    IF lineNumber < 1 THEN 1
    ELSE IF lineNumber > Len(lines) THEN Len(lines[line]) + 1
    ELSE Min(Max(column, 1), Len(lines[line]) + 1)

PositionInLines(text, lines, line, lineNumber, column) ==
    LineStart(LineStarts(text), line)
        + ValidColumn(lines, line, lineNumber, column) - 1

PositionInText(text, lines, lineNumber, column) ==
    PositionInLines(text, lines, Min(Max(lineNumber, 1), Len(lines)),
                    lineNumber, column)

PositionOffset(text, lineNumber, column) ==
    PositionInText(text, SplitEol(text, <<>>), lineNumber, column)

\* the text with [a, b) (or [b, a)) replaced
ReplaceBetween(value, a, b, text) ==
    Slice(value, 0, Min(a, b)) \o text \o Slice(value, Max(a, b), Len(value))

\* model.pushEditOperations([], [{range, text}]) on a model holding value
ApplyEdit(value, range, text) ==
    ReplaceBetween(value,
        PositionOffset(value, range.startLineNumber, range.startColumn),
        PositionOffset(value, range.endLineNumber, range.endColumn),
        text)

(***************************************************************************)
(* The state the throttled function and the update body work on, as one    *)
(* record, so that several calls made by one handler compose.              *)
(***************************************************************************)
World ==
    [now |-> now, thr |-> thr, timers |-> timers, nextTimerId |-> nextTimerId,
     lastUpdateTime |-> lastUpdateTime, files |-> files,
     modelValue |-> modelValue, editorModel |-> editorModel,
     currentFilePath |-> currentFilePath, steps |-> sourceCodeArray,
     timeouts |-> timeouts,
     execLog |-> execLog, reqLog |-> reqLog]

SetWorld(w) ==
    /\ thr' = w.thr
    /\ timers' = w.timers
    /\ timeouts' = w.timeouts
    /\ nextTimerId' = w.nextTimerId
    /\ lastUpdateTime' = w.lastUpdateTime
    /\ files' = w.files
    /\ modelValue' = w.modelValue
    /\ currentFilePath' = w.currentFilePath
    /\ execLog' = w.execLog
    /\ reqLog' = w.reqLog

\* f with f[k] set to v, k added to the domain when new
Put(f, k, v) == [x \in DOMAIN f \cup {k} |-> IF x = k THEN v ELSE f[x]]

(***************************************************************************)
(* handleEditorChange                                                      *)
(***************************************************************************)
\* handleEditorChange without the final setValue
EnsureValue_Skipped(value, targetText) == value

\* "ensure value is set": model.setValue(targetText) when the value differs
EnsureValue(value, targetText) ==
    IF value # targetText THEN targetText ELSE value

\* model.pushEditOperations on the file's model, then the value ensured
PushEdit(w, values, model, op) ==
    [w EXCEPT !.modelValue =
        Put(values, model,
            EnsureValue(ApplyEdit(values[model], op.range, op.text),
                        op.targetText))]

\* editorState.executeEdits: the whole text of the editor's model replaced by
\* file.value when the file changed; then the edit operation
EditFile(w, file, op, fileChanged) ==
    PushEdit(w,
             IF fileChanged THEN Put(w.modelValue, w.editorModel, file.value)
             ELSE w.modelValue,
             file.model, op)

handleEditorChange(w, op, fileChanged) ==
    IF w.currentFilePath \notin DOMAIN w.files THEN w
    ELSE EditFile(w, w.files[w.currentFilePath], op, fileChanged)

(***************************************************************************)
(* The body of throttledUpdateFiles.  a = [idx, init]: the text of step    *)
(* idx of the timeline and the init flag.                                  *)
(***************************************************************************)
RateLimitMs == 50

\* a rate guard with the comparison turned round
RateGuardDrops_Reversed(w, init) ==
    w.now - w.lastUpdateTime > RateLimitMs /\ ~init

\* the rate guard: TRUE when the execution returns at once
RateGuardDrops(w, init) == w.now - w.lastUpdateTime < RateLimitMs /\ ~init

updateFilesInit(w, path, text) ==
    IF path \in DOMAIN w.files THEN w
    ELSE [w EXCEPT
            !.modelValue = Put(@, path, text),
            !.files = Put(@, path, [model |-> path, value |-> text,
                                    isChanged |-> FALSE]),
            !.currentFilePath = IF @ = "" THEN path ELSE @]

\* if (diff) handleEditorChange(convert2DChangesToMonacoOperations(diff), ...)
updateFilesDiff(w1, diff, fileChanged) ==
    IF diff = Null THEN w1
    ELSE handleEditorChange(w1, convert2DChangesToMonacoOperations(diff),
                            fileChanged)

\* the file record stored with the editor's current model, then the diff of
\* the text against the model's value
updateFilesText(w, path, text, pervFileText) ==
    updateFilesDiff(
        [w EXCEPT
            !.currentFilePath = path,
            !.files = Put(@, path, [model |-> w.editorModel, value |-> text,
                                    isChanged |-> TRUE])],
        getTextDifference2DRanges(text, pervFileText,
                                  DiffChars(pervFileText, text)),
        w.currentFilePath # path)

updateFilesEdit(w, path, text) ==
    updateFilesText(w, path, text, w.modelValue[w.editorModel])

\* history: the execution recorded
LogExec(w, a, passed) ==
    [w EXCEPT !.execLog = Append(@, [t |-> w.now, idx |-> a.idx,
                                     init |-> a.init, pass |-> a.pass,
                                     passed |-> passed,
                                     edited |-> passed /\ ~a.init])]

\* the body past the rate guard
updateFilesBody(w, a, path, text) ==
    IF a.init THEN updateFilesInit(w, path, text)
    ELSE updateFilesEdit(w, path, text)

updateFiles(w, a) ==
    IF RateGuardDrops(w, a.init) THEN LogExec(w, a, FALSE)
    ELSE updateFilesBody([LogExec(w, a, TRUE) EXCEPT !.lastUpdateTime = w.now],
                         a, w.steps[a.idx].file, w.steps[a.idx].text)

(***************************************************************************)
(* throttle(func, 50, {leading: true, trailing: true}) =                   *)
(* debounce(func, 50, {leading: true, maxWait: 50, trailing: true})        *)
(***************************************************************************)
waitMs == 50

maxWait == Max(waitMs, waitMs)

\* throttle called with {leading: false}
leading_Off == FALSE

leading == TRUE

\* throttle called with {trailing: false}
trailing_Off == FALSE

trailing == TRUE

maxing == TRUE

\* undefined, for lastCallTime and timerId
Undefined == -1

\* pass: history, the scheduling pass whose step timer made the call (0: an effect)
NoArgs == [idx |-> 0, init |-> FALSE, pass |-> 0]

ThrInit ==
    [lastArgs |-> NoArgs, timerId |-> Undefined,
     lastCallTime |-> Undefined, lastInvokeTime |-> 0]

invokeFunc(w, time) ==
    updateFiles([w EXCEPT !.thr.lastArgs = NoArgs,
                          !.thr.lastInvokeTime = time], w.thr.lastArgs)

\* setTimeout(timerExpired, wait): a negative delay counts as 0
startTimer(w, wait) ==
    [w EXCEPT
        !.timers = @ \cup {[id |-> w.nextTimerId, due |-> w.now + Max(wait, 0),
                            kind |-> "throttle", idx |-> 0, delay |-> wait,
                            pass |-> 0]},
        !.thr.timerId = w.nextTimerId,
        !.nextTimerId = @ + 1]

\* return leading ? invokeFunc(time) : result
leadingInvoke(w, time) == IF leading THEN invokeFunc(w, time) ELSE w

leadingEdge(w, time) ==
    leadingInvoke(startTimer([w EXCEPT !.thr.lastInvokeTime = time], waitMs),
                  time)

remainingWait(t, time) ==
    LET timeSinceLastCall == time - t.lastCallTime
        timeSinceLastInvoke == time - t.lastInvokeTime
        timeWaiting == waitMs - timeSinceLastCall
    IN  IF maxing THEN Min(timeWaiting, maxWait - timeSinceLastInvoke)
        ELSE timeWaiting

shouldInvoke(t, time) ==
    LET timeSinceLastCall == time - t.lastCallTime
        timeSinceLastInvoke == time - t.lastInvokeTime
    IN  \/ t.lastCallTime = Undefined
        \/ timeSinceLastCall >= waitMs
        \/ timeSinceLastCall < 0
        \/ (maxing /\ timeSinceLastInvoke >= maxWait)

\* if (trailing && lastArgs) return invokeFunc(time)
trailingInvoke(w, time) ==
    IF trailing /\ w.thr.lastArgs # NoArgs THEN invokeFunc(w, time)
    ELSE [w EXCEPT !.thr.lastArgs = NoArgs]

trailingEdge(w, time) ==
    trailingInvoke([w EXCEPT !.thr.timerId = Undefined], time)

timerExpired(w) ==
    IF shouldInvoke(w.thr, w.now) THEN trailingEdge(w, w.now)
    ELSE startTimer(w, remainingWait(w.thr, w.now))

\* one call throttledUpdateFiles(text of step a.idx, a.init)
\* the call once lastArgs and lastCallTime are stored
debouncedCall(w1, time, isInvoking) ==
    IF isInvoking /\ w1.thr.timerId = Undefined
    THEN leadingEdge(w1, time)
    ELSE IF isInvoking /\ maxing
    THEN invokeFunc(startTimer(w1, waitMs), time)
    ELSE IF w1.thr.timerId = Undefined THEN startTimer(w1, waitMs)
    ELSE w1

debounced(w, a) ==
    debouncedCall([w EXCEPT !.thr.lastArgs = a,
                            !.thr.lastCallTime = w.now,
                            !.reqLog = Append(@, [t |-> w.now, idx |-> a.idx,
                                                  init |-> a.init])],
                  w.now, shouldInvoke(w.thr, w.now))

(***************************************************************************)
(* The component: its inputs                                               *)
(***************************************************************************)
Step(ts, te, f, tx) == [timeStart |-> ts, timeEnd |-> te, file |-> f, text |-> tx]

\* the timelines played: one stream with two long steps; two streams with
\* steps 60 ms apart
Timelines ==
    { <<Step(0, 500, "A", <<"a">>), Step(500, 1000, "A", <<"a", "b">>)>>,
      <<Step(0, 60, "A", <<"a">>), Step(60, 120, "A", <<"a", "b">>),
        Step(120, 180, "B", <<"b">>)>> }

SeekTimes == {0, 60, 700}

Speeds == {1, 2}

PlayerStates == {"UNSTARTED", "PLAYING", "PAUSED"}

\* Date.now() when the component is constructed
StartTime == 1000

\* the clock stops at StartTime + MaxTime
MaxTime == 120

\* the clock advances in steps of TickMs
TickSteps == {10}

\* prop changes after the mount
MaxCmds == 2

Range(f) == {f[x] : x \in DOMAIN f}

RECURSIVE SelectIdx(_, _, _)
\* the indexes i..Len(steps) of the steps with timeStart >= time, in order
SelectIdx(steps, i, time) ==
    IF i > Len(steps) THEN <<>>
    ELSE IF steps[i].timeStart >= time
         THEN <<i>> \o SelectIdx(steps, i + 1, time)
         ELSE SelectIdx(steps, i + 1, time)

(***************************************************************************)
(* The filter effect: the steps still to come and, first, the step that    *)
(* is active at the current time.                                          *)
(***************************************************************************)
FilterEffect(steps, time) ==
    LET newFilteredArray == SelectIdx(steps, 1, time)
        active == {i \in 1..Len(steps) :
                      steps[i].timeStart <= time /\ steps[i].timeEnd > time}
    IN  IF active # {}
        THEN <<CHOOSE i \in active : \A j \in active : i <= j>>
                 \o newFilteredArray
        ELSE newFilteredArray

(***************************************************************************)
(* Timers                                                                  *)
(***************************************************************************)
\* a cancellation that clears the map and no timer
clearTimeouts_Skipped(tms, map) == tms

\* Array.from(map.values()).forEach(clearTimeout): the timers left pending
clearTimeouts(tms, map) == {t \in tms : t.id \notin Range(map)}

\* clearTimeout on every value of timeouts, then timeouts.clear()
ClearAll(w) ==
    [w EXCEPT !.timers = clearTimeouts(@, w.timeouts), !.timeouts = <<>>]

\* a scheduling effect that returns no cleanup
SchedulingCleanup_Missing(w) == w

\* the cleanup the scheduling effect returned, run before the next pass and
\* at unmount
SchedulingCleanup(w) == IF hasCleanup THEN ClearAll(w) ELSE w

\* the cancel effect, run when currentSpeed or playerState changed
CancelEffect(w, state, speed) ==
    IF state # "PLAYING" \/ prevVideoSpeed # speed THEN ClearAll(w) ELSE w

\* the delay of the timer of a step
StepDelay(element, speed, time) == (element.timeStart \div speed) - time

RECURSIVE ScheduleLoop(_, _, _, _, _, _)
\* the loop of the scheduling effect from position i of fa on
\* timeouts.current.set(index, setTimeout(..., delay))
SetStepTimeout(w, idx, delay) ==
    [w EXCEPT
        !.timers = @ \cup
            {[id |-> w.nextTimerId, due |-> w.now + Max(delay, 0),
              kind |-> "step", idx |-> idx, delay |-> delay,
              pass |-> passCount + 1]},
        !.timeouts = Append(@, w.nextTimerId),
        !.nextTimerId = @ + 1]

\* if (index === 0) throttledUpdateFiles(element.text)
ScheduleFirst(w, fa, i) ==
    IF i = 1 THEN debounced(w, [idx |-> fa[i], init |-> FALSE, pass |-> 0])
    ELSE w

\* if (playerState === PLAYING) the timer of the element is set
ScheduleTimeout(w, fa, i, state, speed, time) ==
    IF state = "PLAYING"
    THEN SetStepTimeout(w, fa[i], StepDelay(w.steps[fa[i]], speed, time))
    ELSE w

ScheduleLoop(w, fa, i, state, speed, time) ==
    IF i > Len(fa) THEN w
    ELSE ScheduleLoop(ScheduleTimeout(ScheduleFirst(w, fa, i), fa, i,
                                      state, speed, time),
                      fa, i + 1, state, speed, time)

\* the scheduling effect; w is the world after the cleanups and the effects
\* that run before it, time is currentTimeRef.current * 1000
SchedulingEffect(w, fa, state, speed, time) ==
    IF Len(fa) = 0
    THEN /\ SetWorld(w)
         /\ hasCleanup' = FALSE
    ELSE /\ SetWorld(ScheduleLoop(ClearAll(w), fa, 1, state, speed, time))
         /\ hasCleanup' = TRUE

RECURSIVE PrimingLoop(_, _)
\* the priming effect from step i on
PrimingLoop(w, i) ==
    IF i > Len(w.steps) THEN w
    ELSE PrimingLoop(debounced(w, [idx |-> i, init |-> TRUE, pass |-> 0]),
                     i + 1)

(***************************************************************************)
(* Actions                                                                 *)
(***************************************************************************)
Live == editorState /\ ~unmounted /\ Len(cmdLog) < MaxCmds

\* the editor has mounted: throttledUpdateFiles is created anew, the priming
\* effect runs, then the scheduling effect
Mount ==
    /\ ~editorState
    /\ editorState' = TRUE
    /\ SchedulingEffect(
           SchedulingCleanup(PrimingLoop([World EXCEPT !.thr = ThrInit], 1)),
           filteredArray, playerState, currentSpeed, currentTime)
    /\ passCount' = passCount + 1
    /\ firedSteps' = {}
    /\ UNCHANGED <<sourceCodeArray, now, unmounted, currentTime, playerState,
                   currentSpeed, prevVideoSpeed, filteredArray, editorModel,
                   cmdLog, diffIn, diffOut, diffCalled, convIn, convOut, durIn, durOut, ctlIn, ctlOut>>

\* prop currentTime changes: filter effect, then the scheduling effect
Seek(t) ==
    /\ Live
    /\ t # currentTime
    /\ currentTime' = t
    /\ filteredArray' = FilterEffect(sourceCodeArray, t)
    /\ SchedulingEffect(SchedulingCleanup(World), FilterEffect(sourceCodeArray, t),
                        playerState, currentSpeed, t)
    /\ passCount' = passCount + 1
    /\ firedSteps' = {}
    /\ cmdLog' = Append(cmdLog, [cmd |-> "seek", arg |-> t])
    /\ UNCHANGED <<sourceCodeArray, now, editorState, unmounted, playerState,
                   currentSpeed, prevVideoSpeed, editorModel, diffIn, diffOut, diffCalled, convIn, convOut, durIn, durOut, ctlIn, ctlOut>>

\* prop playerState changes: cancel effect, then the scheduling effect
ChangePlayerState(st) ==
    /\ st # playerState
    /\ playerState' = st
    /\ SchedulingEffect(CancelEffect(SchedulingCleanup(World), st, currentSpeed),
                        filteredArray, st, currentSpeed, currentTime)
    /\ passCount' = passCount + 1
    /\ firedSteps' = {}
    /\ cmdLog' = Append(cmdLog, [cmd |-> st, arg |-> 0])
    /\ UNCHANGED <<sourceCodeArray, now, editorState, unmounted, currentTime,
                   currentSpeed, prevVideoSpeed, filteredArray, editorModel,
                   diffIn, diffOut, diffCalled, convIn, convOut, durIn, durOut, ctlIn, ctlOut>>

SetPlayerState(st) == Live /\ ChangePlayerState(st)

\* prop currentSpeed changes: cancel effect, scheduling effect, then the
\* effect that records the speed
ChangeSpeed(sp) ==
    /\ sp # currentSpeed
    /\ currentSpeed' = sp
    /\ SchedulingEffect(CancelEffect(SchedulingCleanup(World), playerState, sp),
                        filteredArray, playerState, sp, currentTime)
    /\ prevVideoSpeed' = sp
    /\ passCount' = passCount + 1
    /\ firedSteps' = {}
    /\ cmdLog' = Append(cmdLog, [cmd |-> "speed", arg |-> sp])
    /\ UNCHANGED <<sourceCodeArray, now, editorState, unmounted, currentTime,
                   playerState, filteredArray, editorModel, diffIn, diffOut, diffCalled, convIn, convOut, durIn, durOut, ctlIn, ctlOut>>

SetSpeed(sp) == Live /\ ChangeSpeed(sp)

\* the component is unmounted: the cleanup of the scheduling effect runs
Unmount ==
    /\ editorState /\ ~unmounted
    /\ unmounted' = TRUE
    /\ SetWorld(SchedulingCleanup(World))
    /\ UNCHANGED <<sourceCodeArray, now, editorState, currentTime, playerState,
                   currentSpeed, prevVideoSpeed, filteredArray, hasCleanup,
                   editorModel, passCount, firedSteps, cmdLog, diffIn, diffOut, diffCalled, convIn, convOut, durIn, durOut, ctlIn, ctlOut>>

\* the timer the host runs next: the earliest due one, the oldest first
NextTimer(tm) ==
    /\ tm \in timers
    /\ tm.due <= now
    /\ \A o \in timers : o.due > tm.due \/ (o.due = tm.due /\ o.id >= tm.id)

\* a step timer fires: throttledUpdateFiles(element.text)
StepTimerFire ==
    \E tm \in timers :
        /\ NextTimer(tm)
        /\ tm.kind = "step"
        /\ SetWorld(debounced([World EXCEPT !.timers = @ \ {tm}],
                              [idx |-> tm.idx, init |-> FALSE,
                               pass |-> tm.pass]))
        /\ firedSteps' = firedSteps \cup {tm.id}
        /\ UNCHANGED <<sourceCodeArray, now, editorState, unmounted, currentTime,
                       playerState, currentSpeed, prevVideoSpeed, filteredArray,
                       hasCleanup, editorModel, passCount, cmdLog,
                       diffIn, diffOut, diffCalled, convIn, convOut, durIn, durOut, ctlIn, ctlOut>>

\* the timer of the throttled function fires: timerExpired
ThrottleTimerFire ==
    \E tm \in timers :
        /\ NextTimer(tm)
        /\ tm.kind = "throttle"
        /\ SetWorld(timerExpired([World EXCEPT !.timers = @ \ {tm}]))
        /\ UNCHANGED <<sourceCodeArray, now, editorState, unmounted, currentTime,
                       playerState, currentSpeed, prevVideoSpeed, filteredArray,
                       hasCleanup, editorModel, passCount, firedSteps,
                       cmdLog, diffIn, diffOut, diffCalled, convIn, convOut, durIn, durOut, ctlIn, ctlOut>>

\* time passes; a timer that is due runs before the clock moves on
Advance(d, limit) ==
        /\ editorState
        /\ now + d <= StartTime + limit
        /\ \A tm \in timers : tm.due > now
        /\ now' = now + d
        /\ UNCHANGED <<sourceCodeArray, editorState, unmounted, currentTime,
                       playerState, currentSpeed, prevVideoSpeed, filteredArray,
                       timeouts, timers, nextTimerId, thr, lastUpdateTime, files,
                       modelValue, editorModel, currentFilePath, hasCleanup,
                       passCount, firedSteps, execLog, reqLog, cmdLog,
                       diffIn, diffOut, diffCalled, convIn, convOut, durIn, durOut, ctlIn, ctlOut>>

Tick == \E d \in TickSteps : Advance(d, MaxTime)

\* the state after the first renders, before the editor has mounted: the
\* filter effect has run and the scheduling effect has made its first call,
\* which passed the rate guard and stopped at the missing editor
Init ==
    /\ sourceCodeArray \in Timelines
    /\ now = StartTime
    /\ editorState = FALSE
    /\ unmounted = FALSE
    /\ currentTime = 0
    /\ playerState = "UNSTARTED"
    /\ currentSpeed \in Speeds
    /\ prevVideoSpeed = currentSpeed
    /\ filteredArray = FilterEffect(sourceCodeArray, 0)
    /\ timeouts = <<>>
    /\ timers = {}
    /\ nextTimerId = 1
    /\ thr = ThrInit
    /\ lastUpdateTime = StartTime
    /\ files = <<>>
    /\ modelValue = [m \in {"editor"} |-> <<>>]
    /\ editorModel = "editor"
    /\ currentFilePath = ""
    /\ hasCleanup = TRUE
    /\ passCount = 0
    /\ firedSteps = {}
    /\ execLog = <<[t |-> StartTime, idx |-> filteredArray[1], init |-> FALSE,
                    pass |-> 0, passed |-> TRUE, edited |-> FALSE]>>
    /\ reqLog = <<[t |-> StartTime, idx |-> filteredArray[1], init |-> FALSE]>>
    /\ cmdLog = <<>>
    /\ diffIn = <<>>
    /\ diffOut = Null
    /\ diffCalled = FALSE
    /\ convIn = Null
    /\ convOut = Null
    /\ durIn = <<>>
    /\ durOut = Undefined
    /\ ctlIn = Null
    /\ ctlOut = Null

Next ==
    \/ Mount
    \/ \E t \in SeekTimes : Seek(t)
    \/ \E st \in PlayerStates : SetPlayerState(st)
    \/ \E sp \in Speeds : SetSpeed(sp)
    \/ Unmount
    \/ StepTimerFire
    \/ ThrottleTimerFire
    \/ Tick

vars == <<diffIn, diffOut, diffCalled, convIn, convOut, durIn, durOut, ctlIn, ctlOut, sourceCodeArray, now, editorState, unmounted,
          currentTime, playerState, currentSpeed, prevVideoSpeed, filteredArray,
          timeouts, timers, nextTimerId, thr, lastUpdateTime, files, modelValue,
          editorModel, currentFilePath, hasCleanup, passCount, firedSteps,
          execLog, reqLog, cmdLog>>

Spec == Init /\ [][Next]_vars

(***************************************************************************)
(* Specification of the diff synthesizer alone: any pair of different      *)
(* texts with any result of the diff library, then one call.               *)
(***************************************************************************)
pvars == <<sourceCodeArray, now, editorState, unmounted, currentTime,
           playerState, currentSpeed, prevVideoSpeed, filteredArray, timeouts,
           timers, nextTimerId, thr, lastUpdateTime, files, modelValue,
           editorModel, currentFilePath, hasCleanup, passCount, firedSteps,
           execLog, reqLog, cmdLog>>

DiffCall ==
    /\ ~diffCalled
    /\ diffCalled' = TRUE
    /\ diffOut' = getTextDifference2DRanges(ScriptTarget(diffIn),
                                            ScriptOriginal(diffIn), diffIn)
    /\ UNCHANGED <<diffIn, convIn, convOut, durIn, durOut, ctlIn, ctlOut, pvars>>

InitDiff ==
    /\ diffIn \in DiffScripts \cup {<<>>}
    /\ diffOut = Null
    /\ diffCalled = FALSE
    /\ convIn = Null
    /\ convOut = Null
    /\ durIn = <<>>
    /\ durOut = Undefined
    /\ ctlIn = Null
    /\ ctlOut = Null
    /\ sourceCodeArray = <<>>
    /\ now = StartTime
    /\ editorState = FALSE
    /\ unmounted = FALSE
    /\ currentTime = 0
    /\ playerState = "UNSTARTED"
    /\ currentSpeed = 1
    /\ prevVideoSpeed = 1
    /\ filteredArray = <<>>
    /\ timeouts = <<>>
    /\ timers = {}
    /\ nextTimerId = 1
    /\ thr = ThrInit
    /\ lastUpdateTime = 0
    /\ files = <<>>
    /\ modelValue = [m \in {"editor"} |-> <<>>]
    /\ editorModel = "editor"
    /\ currentFilePath = ""
    /\ hasCleanup = FALSE
    /\ passCount = 0
    /\ firedSteps = {}
    /\ execLog = <<>>
    /\ reqLog = <<>>
    /\ cmdLog = <<>>

NextDiff == DiffCall

SpecDiff == InitDiff /\ [][NextDiff]_vars

\* C1: applying the descriptor computed for (A, B) to A yields exactly B,
\* for every pair of different texts and every part sequence of the diff.
C1_RoundTrip ==
    diffOut # Null =>
        ReplaceRange(diffOut.originalText, diffOut.rangeOffset,
                     diffOut.rangeLength, diffOut.rangeText) = diffOut.targetText

(***************************************************************************)
(* Properties of the player                                                *)
(***************************************************************************)
\* the content of the buffer the editor shows
VisibleText == modelValue[editorModel]

Last(q) == q[Len(q)]

StepTimers == {tm \in timers : tm.kind = "step"}

ThrottleTimers == {tm \in timers : tm.kind = "throttle"}

\* the executions of the update body by the throttled function of the
\* mounted editor (the first entry is the call made before the mount)
Executions == SubSeq(execLog, 2, Len(execLog))

\* the steps whose text the update body wrote to the buffer, in order
RECURSIVE EditedSteps(_)
EditedSteps(log) ==
    IF log = <<>> THEN <<>>
    ELSE IF Head(log).edited THEN <<Head(log).idx>> \o EditedSteps(Tail(log))
    ELSE EditedSteps(Tail(log))

\* q without the repetitions of an element next to itself
RECURSIVE Dedup(_)
Dedup(q) ==
    IF Len(q) <= 1 THEN q
    ELSE IF q[1] = q[2] THEN Dedup(Tail(q))
    ELSE <<q[1]>> \o Dedup(Tail(q))

\* C2: once no timer is pending, the visible buffer holds the text of the
\* last update that was requested.
C2_Converges ==
    (editorState /\ timers = {}) =>
        VisibleText = sourceCodeArray[Last(reqLog).idx].text

\* C3: any two invocations of the function wrapped by throttle are at least
\* waitMs apart.
C3_InvocationsApart ==
    \A i, j \in 1..Len(Executions) :
        i < j => Executions[j].t - Executions[i].t >= waitMs

\* C4: while PLAYING at time T and speed S the timer of a step is created
\* with delay (timeStart - T) / S.
C4_Delay ==
    \A tm \in StepTimers :
        sourceCodeArray[tm.idx].timeStart > currentTime =>
            tm.delay * currentSpeed
                = sourceCodeArray[tm.idx].timeStart - currentTime

\* C5: the pending step timers are exactly the unfired timers of the most
\* recent scheduling pass, and none is pending unless PLAYING and mounted.
C5_OnlyLastPass ==
    /\ \A tm \in StepTimers :
          tm.pass = passCount /\ playerState = "PLAYING" /\ ~unmounted
    /\ {tm.id : tm \in StepTimers} = Range(timeouts) \ firedSteps

C5_Witness ==
    /\ Len(cmdLog) = 2
    /\ cmdLog[1].cmd = "PLAYING"
    /\ cmdLog[2].cmd = "seek"
    /\ StepTimers # {}
    /\ \E tm \in StepTimers : tm.id > Len(timeouts) + 1

\* C6: after priming (mount done, no prop change yet, no throttle timer
\* pending) every stream of the timeline has a buffer holding the text of
\* the stream's first step.
C6_Primed ==
    (editorState /\ cmdLog = <<>> /\ ThrottleTimers = {}) =>
        \A i \in 1..Len(sourceCodeArray) :
            LET f == sourceCodeArray[i].file
                first == CHOOSE k \in 1..Len(sourceCodeArray) :
                            /\ sourceCodeArray[k].file = f
                            /\ \A j \in 1..(k - 1) : sourceCodeArray[j].file # f
            IN  /\ f \in DOMAIN files
                /\ modelValue[files[f].model] = sourceCodeArray[first].text

\* C7: playing from t = 0 at speed 1 writes the steps' texts in the order
\* S1..Sn: what has been written so far is S1..Sk for some k.
C7_InOrder ==
    (cmdLog = <<[cmd |-> "PLAYING", arg |-> 0]>> /\ currentSpeed = 1) =>
        LET done == Dedup(EditedSteps(execLog))
        IN  \A k \in 1..Len(done) : done[k] = k

\* C8: two non-priming executions of the update body that pass the rate
\* guard are at least 50 ms apart.
C8_RateLimit ==
    \A i, j \in 1..Len(execLog) :
        (/\ i < j
         /\ execLog[i].passed /\ ~execLog[i].init
         /\ execLog[j].passed /\ ~execLog[j].init)
            => execLog[j].t - execLog[i].t >= RateLimitMs

C8_Witness ==
    \E i, j, k \in 1..Len(execLog) :
        /\ i < k /\ k < j
        /\ execLog[i].edited /\ execLog[j].edited
        /\ ~execLog[k].passed

\* C9: a non-priming update requested in an idle period (no request and no
\* execution past the rate guard in the last 50 ms, no throttle timer
\* pending) is written to the buffer inside the request.
IdlePeriod ==
    /\ editorState
    /\ ThrottleTimers = {}
    /\ \A i \in 1..Len(reqLog) : now - reqLog[i].t >= waitMs
    /\ \A i \in 1..Len(execLog) :
          execLog[i].passed => now - execLog[i].t >= RateLimitMs

C9_LeadingEdge ==
    [][(IdlePeriod /\ Len(reqLog') = Len(reqLog) + 1)
          => /\ Len(execLog') = Len(execLog) + 1
             /\ Last(execLog').edited
             /\ Last(execLog').idx = Last(reqLog').idx
             /\ VisibleText' = sourceCodeArray[Last(reqLog').idx].text]_vars

\* just after such a request: the only throttle timer is the one the leading
\* edge started, and the request and execution before are 50 ms old
C9_Witness ==
    /\ Len(reqLog) >= 2 /\ Len(execLog) >= 2
    /\ \A tm \in ThrottleTimers : tm.due = now + waitMs
    /\ Cardinality(ThrottleTimers) = 1
    /\ Last(reqLog).t = now
    /\ now - reqLog[Len(reqLog) - 1].t >= waitMs
    /\ Last(execLog).t = now /\ Last(execLog).edited
    /\ now - execLog[Len(execLog) - 1].t >= RateLimitMs
    /\ VisibleText = sourceCodeArray[Last(reqLog).idx].text
    /\ VisibleText # <<"a">>

\* C10: a seek to a time inside a step shows that step's text at once
\* (checked for seeks made once the buffer has shown a step).
ActiveSteps(t) ==
    {i \in 1..Len(sourceCodeArray) :
        sourceCodeArray[i].timeStart <= t /\ sourceCodeArray[i].timeEnd > t}

C10_SeekShows ==
    [][(/\ \E i \in 1..Len(execLog) : execLog[i].edited
        /\ Len(cmdLog') = Len(cmdLog) + 1
        /\ Last(cmdLog').cmd = "seek"
        /\ ActiveSteps(currentTime') # {})
          => \E i \in ActiveSteps(currentTime') :
                VisibleText' = sourceCodeArray[i].text]_vars

(***************************************************************************)
(* Specification of the coordinate conversion alone: any text with LF or   *)
(* with CRLF line endings, any range inside it, then one call.             *)
(***************************************************************************)
ConvAlphabet == {"a", "\n", "\r"}

MaxTextLen == 4

\* every line ending is "\n", or every line ending is "\r\n"
OneEolConvention(t) ==
    \/ \A i \in 1..Len(t) : t[i] # "\r"
    \/ /\ \A i \in 1..Len(t) : t[i] = "\r" => (i < Len(t) /\ t[i + 1] = "\n")
       /\ \A i \in 1..Len(t) : t[i] = "\n" => (i > 1 /\ t[i - 1] = "\r")

ConvTexts ==
    {t \in UNION {[1..n -> ConvAlphabet] : n \in 0..MaxTextLen} :
        OneEolConvention(t)}

\* the inserted texts tried
ConvInserts == {<<>>, <<"b">>}

\* the edits of t: every range inside t with every inserted text
ConvEdits(t) ==
    UNION {{[rangeOffset |-> o, rangeLength |-> l, rangeText |-> x,
             originalText |-> t, targetText |-> ReplaceRange(t, o, l, x)] :
                l \in 0..(Len(t) - o), x \in ConvInserts} : o \in 0..Len(t)}

ConvInputs == UNION {ConvEdits(t) : t \in ConvTexts}

dvars == <<diffIn, diffOut, diffCalled>>

ConvCall ==
    /\ convOut = Null
    /\ convOut' = convert2DChangesToMonacoOperations(convIn)
    /\ UNCHANGED <<convIn, durIn, durOut, ctlIn, ctlOut, dvars, pvars>>

InitConv ==
    /\ convIn \in ConvInputs
    /\ convOut = Null
    /\ durIn = <<>>
    /\ durOut = Undefined
    /\ ctlIn = Null
    /\ ctlOut = Null
    /\ diffIn = <<>>
    /\ diffOut = Null
    /\ diffCalled = FALSE
    /\ sourceCodeArray = <<>>
    /\ now = StartTime
    /\ editorState = FALSE
    /\ unmounted = FALSE
    /\ currentTime = 0
    /\ playerState = "UNSTARTED"
    /\ currentSpeed = 1
    /\ prevVideoSpeed = 1
    /\ filteredArray = <<>>
    /\ timeouts = <<>>
    /\ timers = {}
    /\ nextTimerId = 1
    /\ thr = ThrInit
    /\ lastUpdateTime = 0
    /\ files = <<>>
    /\ modelValue = [m \in {"editor"} |-> <<>>]
    /\ editorModel = "editor"
    /\ currentFilePath = ""
    /\ hasCleanup = FALSE
    /\ passCount = 0
    /\ firedSteps = {}
    /\ execLog = <<>>
    /\ reqLog = <<>>
    /\ cmdLog = <<>>

NextConv == ConvCall

SpecConv == InitConv /\ [][NextConv]_vars

\* the line number of the position at offset o of text t
LineOf(t, o) == 1 + Cardinality({i \in 1..o : t[i] = "\n"})

\* offset o is the first position after a line terminator of t
OnLineBoundary(t, o) == o >= 1 /\ t[o] = "\n"

\* C11: an offset that lands exactly on a line boundary is addressed as
\* column 1 of the following line, for the start and for the end of the range.
C11_BoundaryNextLine ==
    convOut # Null =>
        LET t == convIn.originalText
            st == convIn.rangeOffset
            en == convIn.rangeOffset + convIn.rangeLength
        IN  /\ OnLineBoundary(t, st) =>
                /\ convOut.range.startLineNumber = LineOf(t, st)
                /\ convOut.range.startColumn = 1
            /\ OnLineBoundary(t, en) =>
                /\ convOut.range.endLineNumber = LineOf(t, en)
                /\ convOut.range.endColumn = 1

\* C12: replacing by offset/length and replacing the line/column range the
\* conversion produced give the same text.
C12_CoordinateRoundTrip ==
    convOut # Null =>
        ReplaceRange(convIn.originalText, convIn.rangeOffset,
                     convIn.rangeLength, convIn.rangeText)
            = ApplyEdit(convIn.originalText, convOut.range, convOut.text)

(***************************************************************************)
(* The player with timelines whose steps remove text                       *)
(***************************************************************************)
\* one stream whose second step removes text on both sides of a kept
\* character; the two streams of Timelines, the last step removing text
RemovalTimelines ==
    { <<Step(0, 500, "A", <<"a", "b", "a">>), Step(500, 1000, "A", <<"b">>)>>,
      <<Step(0, 60, "A", <<"a">>), Step(60, 120, "A", <<"a", "b">>),
        Step(120, 180, "B", <<"b">>)>> }

InitRemoval ==
    /\ sourceCodeArray \in RemovalTimelines
    /\ now = StartTime
    /\ editorState = FALSE
    /\ unmounted = FALSE
    /\ currentTime = 0
    /\ playerState = "UNSTARTED"
    /\ currentSpeed \in Speeds
    /\ prevVideoSpeed = currentSpeed
    /\ filteredArray = FilterEffect(sourceCodeArray, 0)
    /\ timeouts = <<>>
    /\ timers = {}
    /\ nextTimerId = 1
    /\ thr = ThrInit
    /\ lastUpdateTime = StartTime
    /\ files = <<>>
    /\ modelValue = [m \in {"editor"} |-> <<>>]
    /\ editorModel = "editor"
    /\ currentFilePath = ""
    /\ hasCleanup = TRUE
    /\ passCount = 0
    /\ firedSteps = {}
    /\ execLog = <<[t |-> StartTime, idx |-> filteredArray[1], init |-> FALSE,
                    pass |-> 0, passed |-> TRUE, edited |-> FALSE]>>
    /\ reqLog = <<[t |-> StartTime, idx |-> filteredArray[1], init |-> FALSE]>>
    /\ cmdLog = <<>>
    /\ diffIn = <<>>
    /\ diffOut = Null
    /\ diffCalled = FALSE
    /\ convIn = Null
    /\ convOut = Null
    /\ durIn = <<>>
    /\ durOut = Undefined
    /\ ctlIn = Null
    /\ ctlOut = Null

SpecRemoval == InitRemoval /\ [][Next]_vars

\* the edit the update body computes for text over the buffer's content
EditFor(original, text) ==
    getTextDifference2DRanges(text, original, DiffChars(original, text))

\* the computed edit does not turn original into text
WrongEdit(original, text) ==
    /\ original # text
    /\ ReplaceRange(original, EditFor(original, text).rangeOffset,
                    EditFor(original, text).rangeLength,
                    EditFor(original, text).rangeText) # text

\* C13: when a non-priming update gets past the rate guard and completes,
\* the visible buffer holds the step's text, also when the computed edit is
\* wrong for the buffer's content; this holds for every later update too.
C13_TargetShown ==
    [][\A i \in (Len(execLog) + 1)..Len(execLog') :
          execLog'[i].edited =>
              VisibleText' = sourceCodeArray[execLog'[i].idx].text]_vars

\* a step was written over a buffer for which its computed edit is wrong
C13_Witness ==
    /\ Len(execLog) >= 3
    /\ Last(execLog).edited
    /\ \E i \in 1..(Len(execLog) - 1) :
          /\ execLog[i].edited
          /\ \A k \in (i + 1)..(Len(execLog) - 1) : ~execLog[k].edited
          /\ WrongEdit(sourceCodeArray[execLog[i].idx].text,
                       sourceCodeArray[Last(execLog).idx].text)
    /\ VisibleText = sourceCodeArray[Last(execLog).idx].text

\* C14: an update a step timer asked for does not mutate the buffer or the
\* file records once the timer's scheduling pass has been cancelled (a later
\* pass has run, or the component is unmounted).
C14_StaleIsNoOp ==
    [][\A i \in (Len(execLog) + 1)..Len(execLog') :
          (execLog'[i].edited /\ execLog'[i].pass # 0) =>
              (execLog'[i].pass = passCount' /\ ~unmounted')]_vars

(***************************************************************************)
(* The player driven by play and pause only: no seek, no speed change.     *)
(***************************************************************************)
\* play/pause commands after the mount
MaxToggles == 3

\* the clock stops at StartTime + MaxPlayTime
MaxPlayTime == 180

PlayPause(st) ==
    /\ editorState /\ ~unmounted
    /\ Len(cmdLog) < MaxToggles
    /\ ChangePlayerState(st)

TickPlay == \E d \in TickSteps : Advance(d, MaxPlayTime)

NextPlayPause ==
    \/ Mount
    \/ \E st \in {"PLAYING", "PAUSED"} : PlayPause(st)
    \/ StepTimerFire
    \/ ThrottleTimerFire
    \/ TickPlay

SpecPlayPause == Init /\ [][NextPlayPause]_vars

\* the steps the update body has written so far
WrittenSteps(log) == {log[k].idx : k \in {x \in 1..Len(log) : log[x].edited}}

\* C15: with pauses and resumes and no seek, no step is applied to the
\* buffer a second time (an application is an update that changes the buffer).
C15_ExactlyOnce ==
    [][\A i \in (Len(execLog) + 1)..Len(execLog') :
          (/\ execLog'[i].edited
           /\ VisibleText' # VisibleText
           /\ \E k \in 1..Len(cmdLog') : cmdLog'[k].cmd = "PAUSED")
              => execLog'[i].idx \notin WrittenSteps(execLog)]_vars

(***************************************************************************)
(* The player driven by play and speed changes only: no seek, no pause.    *)
(***************************************************************************)
PlaySpeed(sp) ==
    /\ editorState /\ ~unmounted
    /\ Len(cmdLog) < MaxToggles
    /\ ChangeSpeed(sp)

NextPlaySpeed ==
    \/ Mount
    \/ PlayPause("PLAYING")
    \/ \E sp \in Speeds : PlaySpeed(sp)
    \/ StepTimerFire
    \/ ThrottleTimerFire
    \/ TickPlay

SpecPlaySpeed == Init /\ [][NextPlaySpeed]_vars

\* C16: a speed change while PLAYING at virtual time T mutates no buffer at
\* the moment of the change: the update it performs neither applies a step
\* that was already applied nor a step with timeStart > T.
C16_SpeedChangeNoEdit ==
    [][(/\ playerState = "PLAYING"
        /\ Len(cmdLog') = Len(cmdLog) + 1
        /\ Last(cmdLog').cmd = "speed")
          => \A i \in (Len(execLog) + 1)..Len(execLog') :
                (execLog'[i].edited /\ VisibleText' # VisibleText) =>
                    /\ execLog'[i].idx \notin WrittenSteps(execLog)
                    /\ sourceCodeArray[execLog'[i].idx].timeStart <= currentTime]_vars

\* the streams other than path that have a file record
OtherStreams(path) == DOMAIN files \ {path}

\* an update that applies step idx of a stream other than the current one
StreamSwitch(e) ==
    /\ e.edited
    /\ currentFilePath # ""
    /\ sourceCodeArray[e.idx].file # currentFilePath

\* C17: when a step of a stream other than the current one is applied, the
\* visible buffer switches to that stream and shows the step's text, and
\* every other stream keeps its file record and the content of its model.
C17_StreamSwitch ==
    [][\A i \in (Len(execLog) + 1)..Len(execLog') :
          StreamSwitch(execLog'[i]) =>
              /\ currentFilePath' = sourceCodeArray[execLog'[i].idx].file
              /\ VisibleText' = sourceCodeArray[execLog'[i].idx].text
              /\ \A p \in OtherStreams(sourceCodeArray[execLog'[i].idx].file) :
                    /\ files'[p] = files[p]
                    /\ modelValue'[files[p].model] = modelValue[files[p].model]]_vars

(***************************************************************************)
(* The duration the player reports, on its own                             *)
(***************************************************************************)
\* steps in a sourceCode
MaxSteps == 3

\* the times of the steps, in seconds
MaxSeconds == 3

MsPerSecond == 1000

DurationSteps ==
    {Step(ts * MsPerSecond, te * MsPerSecond, f, <<"a">>) :
        ts \in 0..(MaxSeconds - 1), te \in 1..MaxSeconds, f \in {"A", "B"}}

\* the steps of a sourceCode are sorted by timeStart and end after they start
SortedByStart(steps) ==
    /\ \A i \in 1..Len(steps) : steps[i].timeStart < steps[i].timeEnd
    /\ \A i \in 1..(Len(steps) - 1) : steps[i].timeStart <= steps[i + 1].timeStart

DurationInputs ==
    {steps \in UNION {[1..n -> DurationSteps] : n \in 0..MaxSteps} :
        SortedByStart(steps)}

\* array[array.length - 1].timeEnd / 1000, 0 for an empty array
Duration(array) ==
    IF Len(array) = 0 THEN 0
    ELSE array[Len(array)].timeEnd \div MsPerSecond

DurationCall ==
    /\ durOut = Undefined
    /\ durOut' = Duration(durIn)
    /\ UNCHANGED <<durIn, convIn, convOut, ctlIn, ctlOut, dvars, pvars>>

InitDuration ==
    /\ convIn = Null
    /\ convOut = Null
    /\ durIn \in DurationInputs
    /\ durOut = Undefined
    /\ ctlIn = Null
    /\ ctlOut = Null
    /\ diffIn = <<>>
    /\ diffOut = Null
    /\ diffCalled = FALSE
    /\ sourceCodeArray = <<>>
    /\ now = StartTime
    /\ editorState = FALSE
    /\ unmounted = FALSE
    /\ currentTime = 0
    /\ playerState = "UNSTARTED"
    /\ currentSpeed = 1
    /\ prevVideoSpeed = 1
    /\ filteredArray = <<>>
    /\ timeouts = <<>>
    /\ timers = {}
    /\ nextTimerId = 1
    /\ thr = ThrInit
    /\ lastUpdateTime = 0
    /\ files = <<>>
    /\ modelValue = [m \in {"editor"} |-> <<>>]
    /\ editorModel = "editor"
    /\ currentFilePath = ""
    /\ hasCleanup = FALSE
    /\ passCount = 0
    /\ firedSteps = {}
    /\ execLog = <<>>
    /\ reqLog = <<>>
    /\ cmdLog = <<>>

NextDuration == DurationCall

SpecDuration == InitDuration /\ [][NextDuration]_vars

\* the greatest timeEnd of the steps, 0 when there is none
MaxTimeEnd(steps) ==
    IF Len(steps) = 0 THEN 0
    ELSE CHOOSE e \in {steps[i].timeEnd : i \in 1..Len(steps)} :
            \A i \in 1..Len(steps) : steps[i].timeEnd <= e

\* C18: the duration reported equals the maximum timeEnd over all steps of
\* all streams, in seconds, and 0 for an empty timeline, for every timeline
\* sorted by timeStart.
C18_DurationIsMaxEnd ==
    durOut # Undefined => durOut * MsPerSecond = MaxTimeEnd(durIn)

(***************************************************************************)
(* The player constructed with a sourceCode that is not a valid timeline   *)
(***************************************************************************)
\* within one stream the steps are in ascending order of timeStart
AscendingInStream(steps) ==
    \A i, j \in 1..Len(steps) :
        (i < j /\ steps[i].file = steps[j].file) =>
            steps[i].timeStart < steps[j].timeStart

\* timelines whose steps of stream A are not in ascending order of timeStart
InvalidTimelines ==
    { <<Step(60, 120, "A", <<"a", "b">>), Step(0, 60, "A", <<"a">>)>>,
      <<Step(0, 60, "A", <<"a">>), Step(120, 180, "A", <<"b">>),
        Step(60, 120, "A", <<"a", "b">>)>> }

InitLoad ==
    /\ sourceCodeArray \in InvalidTimelines
    /\ now = StartTime
    /\ editorState = FALSE
    /\ unmounted = FALSE
    /\ currentTime = 0
    /\ playerState = "UNSTARTED"
    /\ currentSpeed \in Speeds
    /\ prevVideoSpeed = currentSpeed
    /\ filteredArray = FilterEffect(sourceCodeArray, 0)
    /\ timeouts = <<>>
    /\ timers = {}
    /\ nextTimerId = 1
    /\ thr = ThrInit
    /\ lastUpdateTime = StartTime
    /\ files = <<>>
    /\ modelValue = [m \in {"editor"} |-> <<>>]
    /\ editorModel = "editor"
    /\ currentFilePath = ""
    /\ hasCleanup = TRUE
    /\ passCount = 0
    /\ firedSteps = {}
    /\ execLog = <<[t |-> StartTime, idx |-> filteredArray[1], init |-> FALSE,
                    pass |-> 0, passed |-> TRUE, edited |-> FALSE]>>
    /\ reqLog = <<[t |-> StartTime, idx |-> filteredArray[1], init |-> FALSE]>>
    /\ cmdLog = <<>>
    /\ diffIn = <<>>
    /\ diffOut = Null
    /\ diffCalled = FALSE
    /\ convIn = Null
    /\ convOut = Null
    /\ durIn = <<>>
    /\ durOut = Undefined
    /\ ctlIn = Null
    /\ ctlOut = Null

SpecLoad == InitLoad /\ [][Next]_vars

\* C19: a timeline whose steps of one stream are not in ascending order of
\* timeStart is refused at load: no buffer is ever created for it and no
\* step is ever scheduled.
C19_InvalidRefused ==
    ~AscendingInStream(sourceCodeArray) =>
        /\ DOMAIN files = {}
        /\ DOMAIN modelValue = {"editor"}
        /\ StepTimers = {}

\* C20: getTextDifference2DRanges returns null if and only if the original
\* and the target text are identical; for different texts it returns a
\* descriptor.
C20_NullIffIdentical ==
    diffCalled =>
        ((diffOut = Null) <=> (ScriptOriginal(diffIn) = ScriptTarget(diffIn)))

\* the call was made with two identical texts that are not empty, and
\* returned null
C20_Witness ==
    /\ diffCalled
    /\ diffOut = Null
    /\ Len(ScriptOriginal(diffIn)) > 0
    /\ ScriptOriginal(diffIn) = ScriptTarget(diffIn)

\* C21: every descriptor getTextDifference2DRanges returns has
\* rangeOffset >= 0, rangeLength >= 0 and a window that ends inside the
\* original text.
C21_WindowInOriginal ==
    diffOut # Null =>
        /\ diffOut.rangeOffset >= 0
        /\ diffOut.rangeLength >= 0
        /\ diffOut.rangeOffset + diffOut.rangeLength <= Len(diffOut.originalText)

\* a descriptor was returned for a script with a removal, a kept part after
\* it and another change after the kept part
C21_Witness ==
    /\ diffOut # Null
    /\ diffOut.rangeLength > 0
    /\ \E i, j, k \in 1..Len(diffIn) :
          /\ i < j /\ j < k
          /\ diffIn[i].k = "del"
          /\ diffIn[j].k = "eq"
          /\ diffIn[k].k # "eq"

\* C22: a zero-length range is translated to a range whose start equals its
\* end, for every original text and every offset.
C22_EmptyRangeCollapsed ==
    (convOut # Null /\ convIn.rangeLength = 0) =>
        /\ convOut.range.startLineNumber = convOut.range.endLineNumber
        /\ convOut.range.startColumn = convOut.range.endColumn

\* an insertion inside the second or a later line was translated
C22_Witness ==
    /\ convOut # Null
    /\ convIn.rangeLength = 0
    /\ convOut.range.startLineNumber >= 2
    /\ convOut.range.startColumn >= 2

\* the step timers pending in world w
PendingSteps(w) == {tm \in w.timers : tm.kind = "step"}

\* C23: cancelling the step timers is idempotent and total: in every state
\* a cancellation leaves no step timer pending and changes neither the
\* buffers nor the file records, a second cancellation changes nothing,
\* and a cancellation with no step timer pending (none scheduled, or all
\* fired) changes no timer.
C23_CancelIdempotent ==
    /\ PendingSteps(ClearAll(World)) = {}
    /\ ClearAll(World).modelValue = modelValue
    /\ ClearAll(World).files = files
    /\ ClearAll(ClearAll(World)) = ClearAll(World)
    /\ StepTimers = {} => ClearAll(World).timers = timers

\* the player was paused after a step timer had written to the buffer, and
\* then unmounted: the cancellation ran again with no step timer pending
C23_Witness ==
    /\ unmounted
    /\ cmdLog # <<>>
    /\ Last(cmdLog).cmd = "PAUSED"
    /\ \E i \in 1..Len(execLog) : execLog[i].edited /\ execLog[i].pass # 0
    /\ StepTimers = {}

(***************************************************************************)
(* The player with a timeline that has a gap between two steps             *)
(***************************************************************************)
\* no step is active from 60 ms to 500 ms
GapTimelines ==
    { <<Step(0, 60, "A", <<"a">>), Step(500, 1000, "A", <<"a", "b">>)>> }

InitGap ==
    /\ sourceCodeArray \in GapTimelines
    /\ now = StartTime
    /\ editorState = FALSE
    /\ unmounted = FALSE
    /\ currentTime = 0
    /\ playerState = "UNSTARTED"
    /\ currentSpeed \in Speeds
    /\ prevVideoSpeed = currentSpeed
    /\ filteredArray = FilterEffect(sourceCodeArray, 0)
    /\ timeouts = <<>>
    /\ timers = {}
    /\ nextTimerId = 1
    /\ thr = ThrInit
    /\ lastUpdateTime = StartTime
    /\ files = <<>>
    /\ modelValue = [m \in {"editor"} |-> <<>>]
    /\ editorModel = "editor"
    /\ currentFilePath = ""
    /\ hasCleanup = TRUE
    /\ passCount = 0
    /\ firedSteps = {}
    /\ execLog = <<[t |-> StartTime, idx |-> filteredArray[1], init |-> FALSE,
                    pass |-> 0, passed |-> TRUE, edited |-> FALSE]>>
    /\ reqLog = <<[t |-> StartTime, idx |-> filteredArray[1], init |-> FALSE]>>
    /\ cmdLog = <<>>
    /\ diffIn = <<>>
    /\ diffOut = Null
    /\ diffCalled = FALSE
    /\ convIn = Null
    /\ convOut = Null
    /\ durIn = <<>>
    /\ durOut = Undefined
    /\ ctlIn = Null
    /\ ctlOut = Null

SpecGap == InitGap /\ [][Next]_vars

\* C24: a step's text is never applied to the buffer while the virtual time
\* is smaller than the step's timeStart; in particular a seek to a time
\* where no step is active applies nothing.  Stated for the player that has
\* not been started, where the virtual time is currentTime.
C24_NotBeforeStart ==
    [][\A i \in (Len(execLog) + 1)..Len(execLog') :
          (execLog'[i].edited /\ (\A k \in 1..Len(cmdLog') : cmdLog'[k].cmd # "PLAYING")) =>
              sourceCodeArray[execLog'[i].idx].timeStart <= currentTime']_vars

\* C25: after the player is paused the buffer is not mutated until the next
\* command: the timer of the throttle that was pending before the pause
\* applies no update when it expires.
C25_QuietAfterPause ==
    [][(/\ playerState = "PAUSED"
        /\ cmdLog # <<>>
        /\ Last(cmdLog).cmd = "PAUSED"
        /\ cmdLog' = cmdLog)
          => \A tm \in timers \ timers' :
                (tm.kind = "throttle" /\ tm.due - Max(tm.delay, 0) < Last(reqLog).t) =>
                    modelValue' = modelValue]_vars

\* C26: in every reachable state the file records of distinct streams hold
\* distinct text models.
C26_DistinctModels ==
    \A p, q \in DOMAIN files : p # q => files[p].model # files[q].model

\* C27: the throttled function has at most one pending timer at any moment.
C27_OnePendingTimer == Cardinality(ThrottleTimers) <= 1

(***************************************************************************)
(* The throttled function called by the effects of a player that is not    *)
(* playing: calls at any time, expiries of its timer, the clock.           *)
(***************************************************************************)
NextThrottle ==
    \/ Mount
    \/ \E t \in SeekTimes : Seek(t)
    \/ ThrottleTimerFire
    \/ Tick

\* ThrottleTimerFire is enabled: the host runs a timer of the throttle next
ThrottleTimerDue == \E tm \in timers : NextTimer(tm) /\ tm.kind = "throttle"

\* Tick is enabled: no timer is due and the clock has not reached its limit
TickEnabled ==
    /\ editorState
    /\ \E d \in TickSteps : now + d <= StartTime + MaxTime
    /\ \A tm \in timers : tm.due > now

\* weak fairness of ThrottleTimerFire and of Tick, their enabling conditions
\* written out: a timer that is due runs, and the clock goes on up to its
\* limit
SpecThrottle ==
    /\ Init
    /\ [][NextThrottle]_vars
    /\ ([]<>(~ThrottleTimerDue) \/ []<><<ThrottleTimerFire>>_vars)
    /\ ([]<>(~TickEnabled) \/ []<><<Tick>>_vars)

\* the arguments of a call are kept for a later invocation of func
ArgsPending == thr.lastArgs # NoArgs

\* the last invocation of func got the arguments of the last call
LastCallInvoked ==
    /\ Last(execLog).idx = Last(reqLog).idx
    /\ Last(execLog).init = Last(reqLog).init
    /\ Last(execLog).t >= Last(reqLog).t

Num(n, d) == [kind |-> "num", n |-> n, d |-> d]

NaN == [kind |-> "nan", n |-> 0, d |-> 1]

\* a / b for an integer a and an integer b >= 0
JsDivide(a, b) ==
    IF b # 0 THEN Num(a, b)
    ELSE IF a = 0 THEN NaN
    ELSE [kind |-> "inf", n |-> IF a > 0 THEN 1 ELSE -1, d |-> 1]

\* Math.min(Math.max(0, x * 100), 100)
Percentage(x) ==
    IF x.kind = "nan" THEN NaN
    ELSE IF x.n < 0 THEN Num(0, 1)
    ELSE IF x.kind = "inf" \/ x.n * 100 > 100 * x.d THEN Num(100, 1)
    ELSE Num(x.n * 100, x.d)

getCursorPosition(hasBar, clientX, left, width) ==
    IF ~hasBar THEN Num(0, 1)
    ELSE Percentage(JsDivide(clientX - left, width))

\* (percentage / 100) * duration
seek(percentage, duration) ==
    IF percentage.kind = "num"
    THEN Num(percentage.n * duration, percentage.d * 100)
    ELSE IF percentage.kind = "inf" /\ duration # 0 THEN percentage
    ELSE NaN

seekBackward(time) == Num(Max(time - 5, 0), 1)

seekForward(time, duration) ==
    Num(Min(time + 5, duration), 1)

availableSpeeds ==
    {Num(1, 4), Num(1, 2), Num(1, 1), Num(5, 4), Num(3, 2), Num(2, 1)}

\* currentTime and duration, in seconds
MaxDuration == 7

\* the width of the progress bar and the positions of the cursor
MaxWidth == 2

Emit(cmd, value) ==
    /\ ctlIn # Null
    /\ ctlOut = Null
    /\ ctlOut' = [cmd |-> cmd, value |-> value]
    /\ UNCHANGED <<ctlIn, durIn, durOut, convIn, convOut, dvars, pvars>>

\* the 5s back button, ArrowLeft, j
ClickSeekBackward == Emit("seek", seekBackward(ctlIn.currentTime))

\* the 5s forward button, ArrowRight, l
ClickSeekForward == Emit("seek", seekForward(ctlIn.currentTime, ctlIn.duration))

\* a mouse event on the progress bar while it is pressed
DragProgressBar ==
    Emit("seek", seek(getCursorPosition(ctlIn.hasBar, ctlIn.clientX,
                                        ctlIn.left, ctlIn.width),
                      ctlIn.duration))

\* an entry of the speed menu
ClickSpeed(speed) == Emit("speed", speed)

InitControls ==
    /\ convIn = Null
    /\ convOut = Null
    /\ durIn = <<>>
    /\ durOut = Undefined
    /\ ctlIn \in {c \in [currentTime : 0..MaxDuration, duration : 0..MaxDuration,
                         hasBar : BOOLEAN, clientX : 0..(MaxWidth + 2),
                         left : 0..1, width : 0..MaxWidth] :
                    c.currentTime <= c.duration}
    /\ ctlOut = Null
    /\ diffIn = <<>>
    /\ diffOut = Null
    /\ diffCalled = FALSE
    /\ sourceCodeArray = <<>>
    /\ now = StartTime
    /\ editorState = FALSE
    /\ unmounted = FALSE
    /\ currentTime = 0
    /\ playerState = "UNSTARTED"
    /\ currentSpeed = 1
    /\ prevVideoSpeed = 1
    /\ filteredArray = <<>>
    /\ timeouts = <<>>
    /\ timers = {}
    /\ nextTimerId = 1
    /\ thr = ThrInit
    /\ lastUpdateTime = 0
    /\ files = <<>>
    /\ modelValue = [m \in {"editor"} |-> <<>>]
    /\ editorModel = "editor"
    /\ currentFilePath = ""
    /\ hasCleanup = FALSE
    /\ passCount = 0
    /\ firedSteps = {}
    /\ execLog = <<>>
    /\ reqLog = <<>>
    /\ cmdLog = <<>>

NextControls ==
    \/ ClickSeekBackward
    \/ ClickSeekForward
    \/ DragProgressBar
    \/ \E speed \in availableSpeeds : ClickSpeed(speed)

SpecControls == InitControls /\ [][NextControls]_vars

\* C29: with 0 <= currentTime <= duration every seek time Controls emits
\* lies in [0, duration], and every speed it emits is one of the positive
\* values 0.25, 0.5, 1, 1.25, 1.5, 2.
C29_CommandsInRange ==
    ctlOut # Null =>
        /\ ctlOut.cmd = "seek" =>
              /\ ctlOut.value.kind = "num"
              /\ 0 <= ctlOut.value.n
              /\ ctlOut.value.n <= ctlIn.duration * ctlOut.value.d
        /\ ctlOut.cmd = "speed" =>
              /\ ctlOut.value.kind = "num"
              /\ ctlOut.value.n > 0
              /\ \E h \in {25, 50, 100, 125, 150, 200} :
                    ctlOut.value.n * 100 = h * ctlOut.value.d

====
